---- MODULE Spec2Model ----
(***************************************************************************)
(* A model of parsival's Parser (src/src/parsival/__init__.py): a PEG      *)
(* interpreter with packrat memoization and the left-recursion scheme of   *)
(* Warth, Douglass and Millstein.  The recursive interpreter is unfolded   *)
(* into a machine with an explicit call stack: one frame per active        *)
(* apply_rule or try_rule call, one action per piece of code between two   *)
(* calls.                                                                  *)
(***************************************************************************)
EXTENDS Integers, Sequences, FiniteSets, TLC

\* longest input text, in characters
MaxLen == 5

\* most values of a Repeat the model keeps: a longer list is cut to these
MaxValues == 7

\* most evaluations of one grow_lr call the model follows
MaxGrow == 8

(***************************************************************************)
(* Values: every AST node, exception and marker has the same three fields  *)
(* (a tag, a string, the children).                                        *)
(***************************************************************************)
Val(tag, s, kids) == [tag |-> tag, str |-> s, kids |-> kids]

\* the text of one message or matched string is a sequence of characters
NoneVal == Val("None", <<>>, <<>>)
StrVal(s) == Val("str", s, <<>>)
ListVal(vs) == Val("list", <<>>, vs)
COMMIT == Val("COMMIT", <<>>, <<>>)
LRVal == Val("LR", <<>>, <<>>)
Failed(msg) == Val("Failed", <<msg>>, <<>>)
FailedToCommit(exc) == Val("FailedToCommit", exc.str, <<>>)
TypeError(msg) == Val("TypeError", <<msg>>, <<>>)
NameError(msg) == Val("NameError", <<msg>>, <<>>)

\* isinstance(v, Failed): FailedToCommit is a subclass of Failed
IsFailed(v) == v.tag \in {"Failed", "FailedToCommit"}
IsLR(v) == v.tag = "LR"

\* a reference that is None
NoKey == <<>>

(***************************************************************************)
(* Characters and regular expressions.  A pattern of the grammars below is *)
(* a character class repeated at least `min` times, matched greedily.      *)
(***************************************************************************)
Whitespace == {" "}
Digits == {"1", "2"}
Letters == {"a", "b", "c", "x"}

RECURSIVE RunEnd(_, _, _)
\* the end of the longest run of characters of class cls in s from offset p
RunEnd(s, p, cls) ==
    IF p < Len(s) /\ s[p + 1] \in cls THEN RunEnd(s, p + 1, cls) ELSE p

\* re.Pattern.match(text, pos): the end offset of the match, or -1
RegexMatch(s, p, cls, min) ==
    LET e == RunEnd(s, p, cls) IN IF e - p >= min THEN e ELSE -1

\* StartsWith that takes the end of the text for a match of what is left of
\* the literal
StartsWithCut(s, lit, p) ==
    \A j \in 1..Len(lit) : p + j <= Len(s) => s[p + j] = lit[j]

\* str.startswith(lit, pos)
StartsWith(s, lit, p) ==
    /\ p + Len(lit) <= Len(s)
    /\ \A j \in 1..Len(lit) : s[p + j] = lit[j]

RECURSIVE LStrip(_)
LStrip(s) == IF s # <<>> /\ Head(s) \in Whitespace THEN LStrip(Tail(s)) ELSE s

RECURSIVE RStrip(_)
RStrip(s) ==
    IF s # <<>> /\ s[Len(s)] \in Whitespace
    THEN RStrip(SubSeq(s, 1, Len(s) - 1)) ELSE s

\* str.strip()
Strip(s) == RStrip(LStrip(s))

(***************************************************************************)
(* The grammars.  A rule is named by a string: the memo table and the      *)
(* heads compare rules by equality, and equal names are equal rules.       *)
(* Forms: "Regex" (cls, min), "Literal" (values), "Union" (args),          *)
(* "list" (elem, args = quantifier and optional separator), "Not" (rule),  *)
(* "class" (fields, each a name and an annotation; the annotation "Commit" *)
(* is parsival.Commit), "str" (a bare string used where a rule is due),    *)
(* "Lookahead" (rule; an instance of helper_rules._Lookahead).             *)
(***************************************************************************)
Regex(cls, min) == [form |-> "Regex", cls |-> cls, min |-> min]
Literal(values) == [form |-> "Literal", values |-> values]
Union(args) == [form |-> "Union", args |-> args]
List(elem, args) == [form |-> "list", elem |-> elem, args |-> args]
Not(rule) == [form |-> "Not", rule |-> rule]
Lookahead(rule) == [form |-> "Lookahead", rule |-> rule]
Class(fields) == [form |-> "class", fields |-> fields]
Field(name, annotation) == [name |-> name, rule |-> annotation]

Grammar ==
    [ \* Expr <- Expr '+' Num | Num
      Expr |-> Union(<<"Plus", "Num">>),
      Plus |-> Class(<<Field("left", "Expr"), Field("op", "LitPlus"),
                       Field("right", "Num")>>),
      Num |-> Regex(Digits, 1),
      LitPlus |-> Literal(<< <<"+">> >>),
      \* A <- B 'x' | 'a' ; B <- A
      A |-> Union(<<"AX", "LitA">>),
      AX |-> Class(<<Field("b", "B"), Field("x", "LitX")>>),
      B |-> Class(<<Field("a", "A")>>),
      LitA |-> Literal(<< <<"a">> >>),
      LitB |-> Literal(<< <<"b">> >>),
      LitX |-> Literal(<< <<"x">> >>),
      \* ordered choice
      LitAB |-> Literal(<< <<"a", "b">> >>),
      First |-> Union(<<"LitA", "LitAB">>),
      Lits |-> Literal(<< <<"a">>, <<"a", "b">> >>),
      Pair |-> Class(<<Field("first", "First"), Field("lits", "Lits")>>),
      \* Paren <- '(' ~ Expr ')' | NAME
      Paren |-> Union(<<"ParenSeq", "NAME">>),
      ParenSeq |-> Class(<<Field("lp", "LitLP"), Field("cut", "Commit"),
                           Field("e", "Expr"), Field("rp", "LitRP")>>),
      LitLP |-> Literal(<< <<"(">> >>),
      LitRP |-> Literal(<< <<")">> >>),
      NAME |-> Regex(Letters, 1),
      \* a committed sequence below a Repeat below a Choice
      CSeq |-> Class(<<Field("a", "LitA"), Field("cut", "Commit"),
                       Field("b", "LitB")>>),
      RepC |-> List("CSeq", <<"+">>),
      ChoiceRep |-> Union(<<"RepC", "LitA">>),
      \* repetition
      ListA |-> List("LitA", <<"*">>),
      Greedy |-> Class(<<Field("items", "ListA"), Field("last", "LitA")>>),
      Items |-> List("NAME", <<"+", "LitComma">>),
      LitComma |-> Literal(<< <<",">> >>),
      Some |-> List("LitB", <<"+">>),
      \* negative lookahead
      AB |-> Class(<<Field("a", "LitA"), Field("b", "LitB")>>),
      NotAB |-> Not("AB"),
      NotB |-> Not("LitB"),
      NotWs |-> Class(<<Field("a", "LitA"), Field("n", "NotB")>>),
      SPACE |-> Regex(Whitespace, 1),
      \* malformed rules
      BadStr |-> [form |-> "str"],
      BadList |-> List("LitA", <<"?">>),
      NotBad |-> Not("BadStr"),
      BadChoice |-> Union(<<"LitB", "NotBad", "LitA">>),
      BadRep |-> Union(<<"BadList", "LitA">>),
      RepBad |-> List("BadStr", <<"*">>),
      OptBad |-> Union(<<"RepBad", "NoneType">>),
      \* NAME NO_SPACE Num
      NO_SPACE |-> Not("SPACE"),
      Adjacent |-> Class(<<Field("n", "NAME"), Field("ns", "NO_SPACE"),
                           Field("m", "Num")>>),
      \* Optional[r] is Union[r, type(None)]
      NoneType |-> Class(<<>>),
      Opt |-> Union(<<"CSeq", "NoneType">>),
      OptSeq |-> Class(<<Field("o", "Opt"), Field("b", "LitB")>>),
      \* a Choice inside a Sequence inside a Choice
      Inner |-> Union(<<"CSeq", "LitB">>),
      Wrap |-> Class(<<Field("inner", "Inner")>>),
      Outer |-> Union(<<"Wrap", "LitA">>),
      \* a Sequence with no Commit around a Sequence with one
      WrapC |-> Class(<<Field("c", "CSeq")>>),
      ChoiceW |-> Union(<<"WrapC", "LitA">>),
      \* positive lookahead
      LookA |-> Lookahead("LitA"),
      LookSeq |-> Class(<<Field("l", "LookA"), Field("a", "LitA")>>),
      \* left recursion through an optional operand, with a Commit:
      \* Optional[Union[PlusO, Num]] is Union[PlusO, Num, type(None)]
      PlusO |-> Class(<<Field("left", "OptExpr"), Field("op", "LitPlus"),
                        Field("cut", "Commit"), Field("right", "Num")>>),
      OptExpr |-> Union(<<"PlusO", "Num", "NoneType">>),
      ExprO |-> Union(<<"PlusO", "Num">>),
      \* left recursion whose seed is empty
      PlusZ |-> Class(<<Field("left", "ExprZ"), Field("op", "LitPlus")>>),
      ExprZ |-> Union(<<"PlusZ", "NoneType">>),
      \* left recursion through a rule that two alternatives begin with
      Term |-> Class(<<Field("e", "ExprT")>>),
      PlusT |-> Class(<<Field("left", "Term"), Field("op", "LitPlus"),
                        Field("right", "Num")>>),
      MinusT |-> Class(<<Field("left", "Term"), Field("op", "LitMinus"),
                         Field("right", "Num")>>),
      LitMinus |-> Literal(<<<<"-">>>>),
      ExprT |-> Union(<<"PlusT", "MinusT", "Num">>),
      \* a repetition of an element that matches the empty string
      OptB |-> Union(<<"LitB", "NoneType">>),
      RepOpt |-> List("OptB", <<"*">>)
    ]

RuleNames == DOMAIN Grammar

\* the start rules, each with the alphabet of its input texts and by how much
\* its texts are shorter than MaxLen
Scenario(top, alpha, cut) == [top |-> top, alpha |-> alpha, cut |-> cut]
Scenarios ==
    { Scenario("Expr", {"1", "2", "+"}, 0),
      Scenario("A", {"a", "x"}, 0),
      Scenario("Pair", {"a", "b"}, 1),
      Scenario("Paren", {"(", "1", "+", ")"}, 1),
      Scenario("ChoiceRep", {"a", "b"}, 1),
      Scenario("Greedy", {"a", "b"}, 1),
      Scenario("Some", {"a", "b"}, 2),
      Scenario("Items", {"a", "b", ","}, 0),
      Scenario("NotAB", {"a", "b"}, 2),
      Scenario("NotWs", {"a", "b", " "}, 2),
      Scenario("BadChoice", {"a", "b"}, 3),
      Scenario("BadRep", {"a", "b"}, 3),
      Scenario("OptBad", {"a"}, 4),
      Scenario("Adjacent", {"a", " ", "1"}, 2),
      Scenario("NAME", {"a", " "}, 2),
      Scenario("OptSeq", {"a", "b"}, 2),
      Scenario("Outer", {"a", "b"}, 3),
      Scenario("ChoiceW", {"a", "b"}, 3),
      Scenario("LookSeq", {"a", "b"}, 4),
      Scenario("ExprO", {"1", "+"}, 1),
      Scenario("ExprZ", {"+"}, 3),
      Scenario("ExprT", {"1", "+", "-"}, 1),
      Scenario("RepOpt", {"b"}, 3) }

\* the values of raise_on_unconsumed a start rule is parsed with
Modes(top) == IF top \in {"NAME", "Adjacent"} THEN BOOLEAN ELSE {TRUE}

Texts(alpha, n) == UNION {[1..k -> alpha] : k \in 0..n}

(***************************************************************************)
(* The parser's state.                                                     *)
(***************************************************************************)
VARIABLES
    text,       \* Parser.text, the stripped input
    top_level,  \* the start rule given to parse
    raise_on_unconsumed,  \* the flag given to parse
    pos,        \* Parser.pos, the cursor
    memo,       \* Parser.memo: <<rule, pos>> -> MemoEntry (ans, pos)
    lrs,        \* the LR objects, named by the memo key they were made for
    headObjs,   \* the Head objects, named by the LR that created them
    heads,      \* Parser.heads: pos -> Head or None
    lr_stack,   \* Parser.lr_stack: the top LR of the invocation stack
    stack,      \* the call stack, innermost call last
    ret,        \* what the call that just ended returned or raised
    outcome     \* what Parser.parse returned or raised

vars == <<text, top_level, raise_on_unconsumed,
          pos, memo, lrs, headObjs, heads, lr_stack,
          stack, ret, outcome>>

MemoEntry(ans, p) == [ans |-> ans, pos |-> p]
LR(seed, rule, head, next) ==
    [seed |-> seed, rule |-> rule, head |-> head, next |-> next]
HeadRec(rule, involved, eval) ==
    [rule |-> rule, involved |-> involved, eval |-> eval]

\* one call: the function, where it stands, its arguments and locals
Frame(fn, pc, rule, p) ==
    [fn |-> fn, pc |-> pc, rule |-> rule, pos |-> p, i |-> 0,
     values |-> <<>>, committed |-> FALSE, start |-> p, head |-> NoKey]

NoRet == [kind |-> "none", val |-> NoneVal]
Returned(v) == [kind |-> "return", val |-> v]
Raised(e) == [kind |-> "raise", val |-> e]

Top == stack[Len(stack)]
Pop == SubSeq(stack, 1, Len(stack) - 1)
SetTop(f) == [stack EXCEPT ![Len(stack)] = f]
\* the top frame becomes f and calls g
Call(f, g) == Append(SetTop(f), g)

At(fn, pc) == stack # <<>> /\ Top.fn = fn /\ Top.pc = pc

Init ==
    /\ \E sc \in Scenarios :
        \E raw \in Texts(sc.alpha, MaxLen - sc.cut) :
            /\ text = Strip(raw)
            /\ top_level = sc.top
            /\ raise_on_unconsumed \in Modes(sc.top)
    /\ pos = 0
    /\ memo = <<>>
    /\ lrs = <<>>
    /\ headObjs = <<>>
    /\ heads = [p \in 0..Len(text) |-> NoKey]
    /\ lr_stack = NoKey
    /\ stack = <<Frame("parse", "enter", top_level, 0)>>
    /\ ret = NoRet
    /\ outcome = [status |-> "running", val |-> NoneVal]

\* a function with one more (or one changed) point
Put(f, k, v) == [x \in DOMAIN f \cup {k} |-> IF x = k THEN v ELSE f[x]]

(***************************************************************************)
(* Parser.parse                                                            *)
(***************************************************************************)
\* parse: reset the cursor and apply the start rule at 0
parse ==
    /\ At("parse", "enter")
    /\ pos' = 0
    /\ stack' = Call([Top EXCEPT !.pc = "ret"],
                     Frame("apply_rule", "enter", top_level, 0))
    /\ UNCHANGED <<text, top_level, raise_on_unconsumed,
                   memo, lrs, headObjs, heads, lr_stack,
                   ret, outcome>>

\* ParseOutcome that never looks for text left over
ParseOutcomeLenient(r, p) ==
    IF r.kind = "raise"
    THEN IF IsFailed(r.val)
         THEN [status |-> "SyntaxError", val |-> r.val]
         ELSE [status |-> r.val.tag, val |-> r.val]
    ELSE [status |-> "returned", val |-> r.val]

\* the value or the error parse ends with, given what apply_rule handed back
ParseOutcome(r, p) ==
    IF r.kind = "raise"
    THEN IF IsFailed(r.val)
         THEN [status |-> "SyntaxError", val |-> r.val]
         ELSE [status |-> r.val.tag, val |-> r.val]
    ELSE IF raise_on_unconsumed /\ p < Len(text)
         THEN [status |-> "SyntaxError", val |-> Val("remains", <<>>, <<>>)]
         ELSE [status |-> "returned", val |-> r.val]

\* parse, after apply_rule: a Failed becomes a SyntaxError, unconsumed text
\* is a SyntaxError, any other exception passes through
parse_return ==
    /\ At("parse", "ret")
    /\ ret.kind # "none"
    /\ outcome' = ParseOutcome(ret, pos)
    /\ stack' = <<>>
    /\ ret' = NoRet
    /\ UNCHANGED <<text, top_level, raise_on_unconsumed,
                   pos, memo, lrs, headObjs, heads, lr_stack>>

(***************************************************************************)
(* recall, setup_lr: the parts of the packrat driver that make no calls.   *)
(***************************************************************************)
Key(rule, p) == <<rule, p>>

\* RecallKind with the branch that evaluates involved rules anew left out
RecallKindNoEval(rule, p) ==
    LET h == heads[p] IN
    IF h = NoKey THEN "plain"
    ELSE IF Key(rule, p) \notin DOMAIN memo
            /\ rule \notin ({headObjs[h].rule} \cup headObjs[h].involved)
         THEN "suppressed"
    ELSE "plain"

\* RecallKind that suppresses no rule while a head is active
RecallKindNoSuppress(rule, p) ==
    LET h == heads[p] IN
    IF h = NoKey THEN "plain"
    ELSE IF rule \in headObjs[h].eval THEN "eval"
    ELSE "plain"

\* which way recall(rule, p) goes: "plain" returns what the memo holds,
\* "suppressed" returns a failure for a rule outside the active head,
\* "eval" evaluates an involved rule anew
RecallKind(rule, p) ==
    LET h == heads[p] IN
    IF h = NoKey THEN "plain"
    ELSE IF Key(rule, p) \notin DOMAIN memo
            /\ rule \notin ({headObjs[h].rule} \cup headObjs[h].involved)
         THEN "suppressed"
    ELSE IF rule \in headObjs[h].eval THEN "eval"
    ELSE "plain"

\* Recalled that loses the entry's end position
RecalledAtStart(rule, p) ==
    IF RecallKind(rule, p) = "suppressed"
    THEN [none |-> FALSE, ans |-> Failed("Invalid parser state 2"), pos |-> p]
    ELSE IF Key(rule, p) \in DOMAIN memo
         THEN [none |-> FALSE, ans |-> memo[Key(rule, p)].ans, pos |-> p]
         ELSE [none |-> TRUE, ans |-> NoneVal, pos |-> p]

\* the entry recall returns when it does not evaluate: none means None
Recalled(rule, p) ==
    IF RecallKind(rule, p) = "suppressed"
    THEN [none |-> FALSE, ans |-> Failed("Invalid parser state 2"), pos |-> p]
    ELSE IF Key(rule, p) \in DOMAIN memo
         THEN [none |-> FALSE, ans |-> memo[Key(rule, p)].ans,
               pos |-> memo[Key(rule, p)].pos]
         ELSE [none |-> TRUE, ans |-> NoneVal, pos |-> p]

\* stack.head != lr.head: Head is a dataclass, compared field by field
HeadsDiffer(a, b, H) == IF a = NoKey THEN TRUE ELSE H[a] # H[b]

\* SetupLoop that marks the top frame of the LR stack only
SetupLoopOneFrame(s, L, H, h) ==
    IF s # NoKey /\ HeadsDiffer(L[s].head, h, H)
    THEN [lrs |-> [L EXCEPT ![s].head = h],
          headObjs |-> [H EXCEPT ![h].involved = @ \cup {L[s].rule}]]
    ELSE [lrs |-> L, headObjs |-> H]

RECURSIVE SetupLoop(_, _, _, _)
\* the while loop of setup_lr from frame s of the LR stack, for head h
SetupLoop(s, L, H, h) ==
    IF s # NoKey /\ HeadsDiffer(L[s].head, h, H)
    THEN SetupLoop(L[s].next,
                   [L EXCEPT ![s].head = h],
                   [H EXCEPT ![h].involved = @ \cup {L[s].rule}],
                   h)
    ELSE [lrs |-> L, headObjs |-> H]

\* setup_lr(rule, lr), lr being the LR object k
setup_lr(rule, k) ==
    LET fresh == lrs[k].head = NoKey
        L == IF fresh THEN [lrs EXCEPT ![k].head = k] ELSE lrs
        H == IF fresh THEN Put(headObjs, k, HeadRec(rule, {}, {})) ELSE headObjs
    IN SetupLoop(lr_stack, L, H, L[k].head)

\* apply_rule: raise the answer when it is a Failed, return it otherwise
ApplyResult(v) == IF IsFailed(v) THEN Raised(v) ELSE Returned(v)

\* Evaluated that takes any exception for a Failed
EvaluatedAny == ret.kind # "none"

\* eval_ has ended: try_rule returned a value or raised a Failed
Evaluated == ret.kind = "return" \/ (ret.kind = "raise" /\ IsFailed(ret.val))

(***************************************************************************)
(* apply_rule and apply_rule_inner                                         *)
(***************************************************************************)
\* memo miss: push a new LR, memoize it and evaluate the rule
apply_rule_miss ==
    /\ At("apply_rule", "enter")
    /\ LET rule == Top.rule
           k == Key(Top.rule, Top.pos)
       IN /\ RecallKind(rule, Top.pos) # "eval"
          /\ Recalled(rule, Top.pos).none
          /\ lrs' = Put(lrs, k, LR(Failed("Invalid parser state 1"), rule,
                                   NoKey, lr_stack))
          /\ lr_stack' = k
          /\ memo' = Put(memo, k, MemoEntry(LRVal, Top.pos))
          /\ stack' = Call([Top EXCEPT !.pc = "evaluated"],
                           Frame("try_rule", "enter", rule, pos))
    /\ UNCHANGED <<text, top_level, raise_on_unconsumed,
                   pos, headObjs, heads, ret, outcome>>

\* memo hit: move the cursor to the entry's end; an LR marker means left
\* recursion, and its seed is the answer
apply_rule_hit ==
    /\ At("apply_rule", "enter")
    /\ LET rule == Top.rule
           k == Key(Top.rule, Top.pos)
           m == Recalled(rule, Top.pos)
       IN /\ RecallKind(rule, Top.pos) # "eval"
          /\ ~m.none
          /\ pos' = m.pos
          /\ IF IsLR(m.ans)
             THEN /\ lrs' = setup_lr(rule, k).lrs
                  /\ headObjs' = setup_lr(rule, k).headObjs
                  /\ ret' = ApplyResult(lrs[k].seed)
             ELSE /\ ret' = ApplyResult(m.ans)
                  /\ UNCHANGED <<lrs, headObjs>>
          /\ stack' = Pop
    /\ UNCHANGED <<text, top_level, raise_on_unconsumed,
                   memo, heads, lr_stack, outcome>>

\* recall_eval that leaves the rule in head.eval
recall_eval_again ==
    /\ At("apply_rule", "enter")
    /\ RecallKind(Top.rule, Top.pos) = "eval"
    /\ stack' = Call([Top EXCEPT !.pc = "recall_eval"],
                     Frame("try_rule", "enter", Top.rule, pos))
    /\ UNCHANGED <<text, top_level, raise_on_unconsumed,
                   pos, memo, lrs, headObjs, heads, lr_stack, ret,
                   outcome>>

\* recall, rule in head.eval: take it out of the set and evaluate it
recall_eval ==
    /\ At("apply_rule", "enter")
    /\ RecallKind(Top.rule, Top.pos) = "eval"
    /\ headObjs' = [headObjs EXCEPT ![heads[Top.pos]].eval = @ \ {Top.rule}]
    /\ stack' = Call([Top EXCEPT !.pc = "recall_eval"],
                     Frame("try_rule", "enter", Top.rule, pos))
    /\ UNCHANGED <<text, top_level, raise_on_unconsumed,
                   pos, memo, lrs, heads, lr_stack, ret,
                   outcome>>

\* recall, after the evaluation: the entry takes the new answer and the
\* cursor; apply_rule_inner then returns it as a hit
recall_evaluated ==
    /\ At("apply_rule", "recall_eval")
    /\ Evaluated
    /\ LET k == Key(Top.rule, Top.pos)
       IN memo' = IF k \in DOMAIN memo
                  THEN [memo EXCEPT ![k] = MemoEntry(ret.val, pos)]
                  ELSE memo
    /\ ret' = ApplyResult(ret.val)
    /\ stack' = Pop
    /\ UNCHANGED <<text, top_level, raise_on_unconsumed,
                   pos, lrs, headObjs, heads, lr_stack,
                   outcome>>

\* apply_rule_inner after the evaluation, no head attached to the LR: pop
\* the LR, store the answer and the cursor in the memo entry
apply_rule_evaluated ==
    /\ At("apply_rule", "evaluated")
    /\ Evaluated
    /\ LET k == Key(Top.rule, Top.pos)
       IN /\ lrs[k].head = NoKey
          /\ lr_stack' = lrs[lr_stack].next
          /\ memo' = [memo EXCEPT ![k] = MemoEntry(ret.val, pos)]
    /\ ret' = ApplyResult(ret.val)
    /\ stack' = Pop
    /\ UNCHANGED <<text, top_level, raise_on_unconsumed,
                   pos, lrs, headObjs, heads, outcome>>

\* lr_answer that never replaces the LR marker in the memo
lr_answer_keeps_marker ==
    /\ At("apply_rule", "evaluated")
    /\ Evaluated
    /\ LET k == Key(Top.rule, Top.pos)
           h == lrs[k].head
       IN /\ h # NoKey
          /\ headObjs[h].rule # Top.rule \/ IsFailed(ret.val)
          /\ lr_stack' = lrs[lr_stack].next
          /\ lrs' = [lrs EXCEPT ![k].seed = ret.val]
          /\ memo' = [memo EXCEPT ![k].pos = pos]
    /\ ret' = ApplyResult(ret.val)
    /\ stack' = Pop
    /\ UNCHANGED <<text, top_level, raise_on_unconsumed,
                   pos, headObjs, heads, outcome>>

\* apply_rule_inner after the evaluation, head attached: the answer becomes
\* the seed.  lr_answer returns the seed of a rule that is not the head and
\* keeps the LR marker in the memo; for the head the seed replaces the
\* marker, and a failed seed is returned as it is
lr_answer ==
    /\ At("apply_rule", "evaluated")
    /\ Evaluated
    /\ LET k == Key(Top.rule, Top.pos)
           h == lrs[k].head
       IN /\ h # NoKey
          /\ headObjs[h].rule # Top.rule \/ IsFailed(ret.val)
          /\ lr_stack' = lrs[lr_stack].next
          /\ lrs' = [lrs EXCEPT ![k].seed = ret.val]
          /\ memo' = IF headObjs[h].rule # Top.rule
                     THEN [memo EXCEPT ![k].pos = pos]
                     ELSE [memo EXCEPT ![k] = MemoEntry(ret.val, pos)]
    /\ ret' = ApplyResult(ret.val)
    /\ stack' = Pop
    /\ UNCHANGED <<text, top_level, raise_on_unconsumed,
                   pos, headObjs, heads, outcome>>

\* GrowthStops without the test that the cursor went further
GrowthStopsOnFailure(ans, p, mpos) == IsFailed(ans)

\* GrowthStops that goes on when the evaluation ended where the entry does
GrowthStopsBehind(ans, p, mpos) == IsFailed(ans) \/ p < mpos

\* GrowthStops that takes a FailedToCommit for an answer
GrowthStopsUncommitted(ans, p, mpos) == ans.tag = "Failed" \/ p <= mpos

\* the test that ends grow_lr's loop (line 397): the evaluation failed or
\* ended no further than the entry's position
GrowthStops(ans, p, mpos) == IsFailed(ans) \/ p <= mpos

\* the head's seed parsed: lr_answer stores it and grow_lr starts, installs
\* the head at pos and evaluates the rule again from pos; the frame's i
\* counts the evaluations of this grow_lr call
grow_lr ==
    /\ At("apply_rule", "evaluated")
    /\ Evaluated
    /\ LET k == Key(Top.rule, Top.pos)
           h == lrs[k].head
       IN /\ h # NoKey
          /\ headObjs[h].rule = Top.rule
          /\ ~IsFailed(ret.val)
          /\ lr_stack' = lrs[lr_stack].next
          /\ lrs' = [lrs EXCEPT ![k].seed = ret.val]
          /\ memo' = [memo EXCEPT ![k] = MemoEntry(ret.val, pos)]
          /\ heads' = [heads EXCEPT ![Top.pos] = h]
          /\ pos' = Top.pos
          /\ headObjs' = [headObjs EXCEPT ![h].eval = headObjs[h].involved]
          /\ stack' = Call([Top EXCEPT !.pc = "growing", !.head = h, !.i = 1],
                           Frame("try_rule", "enter", Top.rule, Top.pos))
    /\ ret' = NoRet
    /\ UNCHANGED <<text, top_level, raise_on_unconsumed, outcome>>

\* grow_lr, the evaluation went further than the seed: keep it, go again
grow_lr_next ==
    /\ At("apply_rule", "growing")
    /\ Evaluated
    /\ LET k == Key(Top.rule, Top.pos)
           h == Top.head
       IN /\ ~GrowthStops(ret.val, pos, memo[k].pos)
          /\ Top.i < MaxGrow
          /\ memo' = [memo EXCEPT ![k] = MemoEntry(ret.val, pos)]
          /\ pos' = Top.pos
          /\ headObjs' = [headObjs EXCEPT ![h].eval = headObjs[h].involved]
          /\ stack' = Call([Top EXCEPT !.i = Top.i + 1],
                           Frame("try_rule", "enter", Top.rule, Top.pos))
    /\ ret' = NoRet
    /\ UNCHANGED <<text, top_level, raise_on_unconsumed,
                   lrs, heads, lr_stack, outcome>>

\* grow_lr_stop that leaves the head in the heads map
grow_lr_stop_keeps_head ==
    /\ At("apply_rule", "growing")
    /\ Evaluated
    /\ LET k == Key(Top.rule, Top.pos)
       IN /\ GrowthStops(ret.val, pos, memo[k].pos)
          /\ pos' = memo[k].pos
          /\ ret' = ApplyResult(memo[k].ans)
    /\ stack' = Pop
    /\ UNCHANGED <<text, top_level, raise_on_unconsumed,
                   memo, lrs, headObjs, heads, lr_stack, outcome>>

\* grow_lr, the evaluation failed or went no further: remove the head, put
\* the cursor at the seed's end and return the seed
grow_lr_stop ==
    /\ At("apply_rule", "growing")
    /\ Evaluated
    /\ LET k == Key(Top.rule, Top.pos)
       IN /\ GrowthStops(ret.val, pos, memo[k].pos)
          /\ heads' = [heads EXCEPT ![Top.pos] = NoKey]
          /\ pos' = memo[k].pos
          /\ ret' = ApplyResult(memo[k].ans)
    /\ stack' = Pop
    /\ UNCHANGED <<text, top_level, raise_on_unconsumed,
                   memo, lrs, headObjs, lr_stack, outcome>>

(***************************************************************************)
(* try_rule: the evaluator, one action per rule form and per return of a   *)
(* call it made.                                                           *)
(***************************************************************************)
Form(rule) == Grammar[rule].form

\* skip_spaces that makes no exception for SPACE and NO_LF
skip_spaces_always(rule) == RunEnd(text, pos, Whitespace)

\* skip_spaces, which every form but Not runs first, unless the rule is
\* SPACE or NO_LF itself: the cursor after it
skip_spaces(rule) ==
    IF rule \in {"SPACE", "NO_LF"} THEN pos ELSE RunEnd(text, pos, Whitespace)

TryEnter(form) ==
    /\ At("try_rule", "enter")
    /\ Form(Top.rule) = form

\* a bare string is no rule
try_str ==
    /\ TryEnter("str")
    /\ ret' = Raised(TypeError("is not a valid rule"))
    /\ stack' = Pop
    /\ UNCHANGED <<text, top_level, raise_on_unconsumed,
                   pos, memo, lrs, headObjs, heads,
                   lr_stack, outcome>>

\* Lookahead[r]: no branch of try_rule takes a _Lookahead, so it is handled
\* as a class: spaces are skipped and typing.get_type_hints, given the
\* instance, fails to evaluate the annotation 'Rule'
try_Lookahead ==
    /\ TryEnter("Lookahead")
    /\ pos' = skip_spaces(Top.rule)
    /\ ret' = Raised(NameError("name 'Rule' is not defined"))
    /\ stack' = Pop
    /\ UNCHANGED <<text, top_level, raise_on_unconsumed,
                   memo, lrs, headObjs, heads, lr_stack, outcome>>

\* Not[r]: apply r where the cursor is, before any space is skipped
try_Not ==
    /\ TryEnter("Not")
    /\ stack' = Call([Top EXCEPT !.pc = "not_ret"],
                     Frame("apply_rule", "enter", Grammar[Top.rule].rule, pos))
    /\ UNCHANGED <<text, top_level, raise_on_unconsumed,
                   pos, memo, lrs, headObjs, heads,
                   lr_stack, ret, outcome>>

\* Not[r] after r: None when r failed, Failed when r parsed
try_Not_return ==
    /\ At("try_rule", "not_ret")
    /\ Evaluated
    /\ ret' = IF ret.kind = "raise"
              THEN Returned(NoneVal)
              ELSE Raised(Failed("Expected not to parse"))
    /\ stack' = Pop
    /\ UNCHANGED <<text, top_level, raise_on_unconsumed,
                   pos, memo, lrs, headObjs, heads,
                   lr_stack, outcome>>

\* Regex: match at the cursor, consume the match, convert it with str
try_Regex ==
    /\ TryEnter("Regex")
    /\ LET p == skip_spaces(Top.rule)
           e == RegexMatch(text, p, Grammar[Top.rule].cls, Grammar[Top.rule].min)
       IN IF e < 0
          THEN /\ pos' = p
               /\ ret' = Raised(Failed("Expecting regex"))
          ELSE /\ pos' = e
               /\ ret' = Returned(StrVal(SubSeq(text, p + 1, e)))
    /\ stack' = Pop
    /\ UNCHANGED <<text, top_level, raise_on_unconsumed,
                   memo, lrs, headObjs, heads, lr_stack,
                   outcome>>

RECURSIVE LastLiteral(_, _, _)
\* FirstLiteral that prefers the last value that matches
LastLiteral(values, i, p) ==
    IF i > Len(values) THEN 0
    ELSE LET n == LastLiteral(values, i + 1, p)
         IN IF n # 0 THEN n
            ELSE IF StartsWith(text, values[i], p) THEN i ELSE 0

RECURSIVE FirstLiteral(_, _, _)
\* the index of the first value from index i on that the text starts with
\* at p, or 0
FirstLiteral(values, i, p) ==
    IF i > Len(values) THEN 0
    ELSE IF StartsWith(text, values[i], p) THEN i
    ELSE FirstLiteral(values, i + 1, p)

\* Literal: the first value, in the order given, the text starts with
try_Literal ==
    /\ TryEnter("Literal")
    /\ LET p == skip_spaces(Top.rule)
           values == Grammar[Top.rule].values
           n == FirstLiteral(values, 1, p)
       IN IF n = 0
          THEN /\ pos' = p
               /\ ret' = Raised(Failed("Expecting one of literals"))
          ELSE /\ pos' = p + Len(values[n])
               /\ ret' = Returned(StrVal(values[n]))
    /\ stack' = Pop
    /\ UNCHANGED <<text, top_level, raise_on_unconsumed,
                   memo, lrs, headObjs, heads, lr_stack,
                   outcome>>

\* Union: apply the first alternative inside a backtrack block
try_Union ==
    /\ TryEnter("Union")
    /\ LET p == skip_spaces(Top.rule)
       IN /\ pos' = p
          /\ stack' = Call([Top EXCEPT !.pc = "union_ret", !.i = 1, !.start = p],
                           Frame("apply_rule", "enter", Grammar[Top.rule].args[1], p))
    /\ UNCHANGED <<text, top_level, raise_on_unconsumed,
                   memo, lrs, headObjs, heads, lr_stack,
                   ret, outcome>>

\* UnionCatch with the FailedToCommit clause left out
UnionCatchFailed(exc) == "next"

\* the except clause of the Union branch that takes exception exc:
\* FailedToCommit is listed first and ends the Union, Failed goes on to the
\* next alternative
UnionCatch(exc) == IF exc.tag = "FailedToCommit" THEN "raise" ELSE "next"

\* Union: the alternative parsed, its value is the Union's
union_return ==
    /\ At("try_rule", "union_ret")
    /\ ret.kind = "return"
    /\ stack' = Pop
    /\ UNCHANGED <<text, top_level, raise_on_unconsumed,
                   pos, memo, lrs, headObjs, heads,
                   lr_stack, ret, outcome>>

\* union_failed_to_commit that raises the FailedToCommit it was handed
union_reraise ==
    /\ At("try_rule", "union_ret")
    /\ ret.kind = "raise"
    /\ IsFailed(ret.val)
    /\ UnionCatch(ret.val) = "raise"
    /\ pos' = Top.start
    /\ stack' = Pop
    /\ UNCHANGED <<text, top_level, raise_on_unconsumed,
                   memo, lrs, headObjs, heads, lr_stack,
                   ret, outcome>>

\* Union: the alternative raised FailedToCommit: backtrack, raise Failed,
\* try no other alternative
union_failed_to_commit ==
    /\ At("try_rule", "union_ret")
    /\ ret.kind = "raise"
    /\ IsFailed(ret.val)
    /\ UnionCatch(ret.val) = "raise"
    /\ pos' = Top.start
    /\ ret' = Raised(Failed("Expecting"))
    /\ stack' = Pop
    /\ UNCHANGED <<text, top_level, raise_on_unconsumed,
                   memo, lrs, headObjs, heads, lr_stack,
                   outcome>>

\* Union: the alternative raised Failed: backtrack, apply the next one
union_next ==
    /\ At("try_rule", "union_ret")
    /\ ret.kind = "raise"
    /\ IsFailed(ret.val)
    /\ UnionCatch(ret.val) = "next"
    /\ Top.i < Len(Grammar[Top.rule].args)
    /\ pos' = Top.start
    /\ stack' = Call([Top EXCEPT !.i = Top.i + 1],
                     Frame("apply_rule", "enter",
                           Grammar[Top.rule].args[Top.i + 1], Top.start))
    /\ ret' = NoRet
    /\ UNCHANGED <<text, top_level, raise_on_unconsumed,
                   memo, lrs, headObjs, heads, lr_stack,
                   outcome>>

\* Union: the last alternative raised Failed
union_exhausted ==
    /\ At("try_rule", "union_ret")
    /\ ret.kind = "raise"
    /\ IsFailed(ret.val)
    /\ UnionCatch(ret.val) = "next"
    /\ Top.i = Len(Grammar[Top.rule].args)
    /\ pos' = Top.start
    /\ ret' = Raised(Failed("Expecting one of"))
    /\ stack' = Pop
    /\ UNCHANGED <<text, top_level, raise_on_unconsumed,
                   memo, lrs, headObjs, heads, lr_stack,
                   outcome>>

\* list: apply the element inside a backtrack block
try_list ==
    /\ TryEnter("list")
    /\ LET p == skip_spaces(Top.rule)
       IN /\ pos' = p
          /\ stack' = Call([Top EXCEPT !.pc = "elem_ret", !.start = p],
                           Frame("apply_rule", "enter", Grammar[Top.rule].elem, p))
    /\ UNCHANGED <<text, top_level, raise_on_unconsumed,
                   memo, lrs, headObjs, heads, lr_stack,
                   ret, outcome>>

\* values.append(v); of a list that grows beyond MaxValues only the first
\* MaxValues values are kept
Appended(values, v) ==
    IF Len(values) < MaxValues THEN Append(values, v) ELSE values

\* list: the element parsed: keep its value, then apply the separator when
\* there is one, the element again otherwise
list_elem ==
    /\ At("try_rule", "elem_ret")
    /\ ret.kind = "return"
    /\ LET args == Grammar[Top.rule].args
           f == [Top EXCEPT !.values = Appended(@, ret.val), !.start = pos]
       IN stack' = IF Len(args) >= 2
                   THEN Call([f EXCEPT !.pc = "sep_ret"],
                             Frame("apply_rule", "enter", args[2], pos))
                   ELSE Call(f, Frame("apply_rule", "enter",
                                      Grammar[Top.rule].elem, pos))
    /\ ret' = NoRet
    /\ UNCHANGED <<text, top_level, raise_on_unconsumed,
                   pos, memo, lrs, headObjs, heads,
                   lr_stack, outcome>>

\* list: the separator parsed: apply the element again
list_sep ==
    /\ At("try_rule", "sep_ret")
    /\ ret.kind = "return"
    /\ stack' = Call([Top EXCEPT !.pc = "elem_ret", !.start = pos],
                     Frame("apply_rule", "enter", Grammar[Top.rule].elem, pos))
    /\ ret' = NoRet
    /\ UNCHANGED <<text, top_level, raise_on_unconsumed,
                   pos, memo, lrs, headObjs, heads,
                   lr_stack, outcome>>

\* ListResult with no minimum count
ListResultNoMin(args, values) ==
    IF args[1] \notin {"*", "+"}
    THEN Raised(TypeError("List annotation must be either * or +"))
    ELSE Returned(ListVal(values))

\* what the list rule ends with once its loop is left with these values
ListResult(args, values) ==
    IF args[1] \notin {"*", "+"}
    THEN Raised(TypeError("List annotation must be either * or +"))
    ELSE IF Len(values) < (IF args[1] = "+" THEN 1 ELSE 0)
         THEN Raised(Failed("Failed to match at least"))
         ELSE Returned(ListVal(values))

\* list: the element or the separator failed: backtrack to where that
\* attempt began, leave the loop, check the minimum count
list_break ==
    /\ stack # <<>>
    /\ Top.fn = "try_rule"
    /\ Top.pc \in {"elem_ret", "sep_ret"}
    /\ ret.kind = "raise"
    /\ IsFailed(ret.val)
    /\ pos' = Top.start
    /\ ret' = ListResult(Grammar[Top.rule].args, Top.values)
    /\ stack' = Pop
    /\ UNCHANGED <<text, top_level, raise_on_unconsumed,
                   memo, lrs, headObjs, heads, lr_stack,
                   outcome>>

RECURSIVE FieldsNoCommit(_, _, _, _)
\* Fields that passes Commit fields without setting committed
FieldsNoCommit(fields, i, committed, values) ==
    IF i <= Len(fields) /\ fields[i].rule = "Commit"
    THEN FieldsNoCommit(fields, i + 1, FALSE, Append(values, COMMIT))
    ELSE [i |-> i, committed |-> FALSE, values |-> values]

RECURSIVE Fields(_, _, _, _)
\* the for loop over a class's annotations from field i on, up to the next
\* field that is a rule to apply: Commit fields set committed and take
\* Commit.COMMIT as their value
Fields(fields, i, committed, values) ==
    IF i <= Len(fields) /\ fields[i].rule = "Commit"
    THEN Fields(fields, i + 1, TRUE, Append(values, COMMIT))
    ELSE [i |-> i, committed |-> committed, values |-> values]

\* Instance that makes a record of every class
InstanceOfClass(rule, values) == Val(rule, <<>>, values)

\* rule(**kwargs): type(None) has no field and makes None
Instance(rule, values) ==
    IF rule = "NoneType" THEN NoneVal ELSE Val(rule, <<>>, values)

\* the class loop goes on from state st: apply the field it stands at, or
\* make the instance when no field is left
ClassStack(st, p) ==
    IF st.i > Len(Grammar[Top.rule].fields)
    THEN Pop
    ELSE Call([Top EXCEPT !.pc = "field_ret", !.i = st.i,
                          !.committed = st.committed, !.values = st.values],
              Frame("apply_rule", "enter", Grammar[Top.rule].fields[st.i].rule, p))

ClassRet(st) ==
    IF st.i > Len(Grammar[Top.rule].fields)
    THEN Returned(Instance(Top.rule, st.values))
    ELSE NoRet

\* class: skip spaces, start the loop over the fields
try_class ==
    /\ TryEnter("class")
    /\ LET p == skip_spaces(Top.rule)
           st == Fields(Grammar[Top.rule].fields, 1, FALSE, <<>>)
       IN /\ pos' = p
          /\ stack' = ClassStack(st, p)
          /\ ret' = ClassRet(st)
    /\ UNCHANGED <<text, top_level, raise_on_unconsumed,
                   memo, lrs, headObjs, heads, lr_stack,
                   outcome>>

\* class: a field parsed: keep its value and go on with the next field
class_field ==
    /\ At("try_rule", "field_ret")
    /\ ret.kind = "return"
    /\ LET st == Fields(Grammar[Top.rule].fields, Top.i + 1, Top.committed,
                        Append(Top.values, ret.val))
       IN /\ stack' = ClassStack(st, pos)
          /\ ret' = ClassRet(st)
    /\ UNCHANGED <<text, top_level, raise_on_unconsumed,
                   pos, memo, lrs, headObjs, heads,
                   lr_stack, outcome>>

\* class: a field failed: FailedToCommit once a Commit field was passed,
\* the same exception otherwise
class_failed ==
    /\ At("try_rule", "field_ret")
    /\ ret.kind = "raise"
    /\ IsFailed(ret.val)
    /\ ret' = IF Top.committed THEN Raised(FailedToCommit(ret.val)) ELSE ret
    /\ stack' = Pop
    /\ UNCHANGED <<text, top_level, raise_on_unconsumed,
                   pos, memo, lrs, headObjs, heads,
                   lr_stack, outcome>>

\* an exception that is no Failed (TypeError, NameError) leaves a frame that is not
\* parse's: no except clause of the parser catches it
propagate ==
    /\ stack # <<>>
    /\ Top.fn # "parse"
    /\ ret.kind = "raise"
    /\ ~IsFailed(ret.val)
    /\ stack' = Pop
    /\ UNCHANGED <<text, top_level, raise_on_unconsumed,
                   pos, memo, lrs, headObjs, heads,
                   lr_stack, ret, outcome>>

Next ==
    \/ parse
    \/ parse_return
    \/ apply_rule_miss
    \/ apply_rule_hit
    \/ recall_eval
    \/ recall_evaluated
    \/ apply_rule_evaluated
    \/ lr_answer
    \/ grow_lr
    \/ grow_lr_next
    \/ grow_lr_stop
    \/ try_str
    \/ try_Lookahead
    \/ try_Not
    \/ try_Not_return
    \/ try_Regex
    \/ try_Literal
    \/ try_Union
    \/ union_return
    \/ union_failed_to_commit
    \/ union_next
    \/ union_exhausted
    \/ try_list
    \/ list_elem
    \/ list_sep
    \/ list_break
    \/ try_class
    \/ class_field
    \/ class_failed
    \/ propagate

Spec == Init /\ [][Next]_vars

\* the parser runs on its own: a step that can be taken is taken
FairSpec == Spec /\ WF_vars(Next)

\* parse has returned or raised
Done == stack = <<>>

(***************************************************************************)
(* Left recursion: the scenarios of the Expr and A grammars.               *)
(***************************************************************************)
IsNumber(s) == s # <<>> /\ \A j \in 1..Len(s) : s[j] \in Digits

RECURSIVE LastPlus(_, _)
\* the index of the last "+" among the first n characters of s, or 0
LastPlus(s, n) ==
    IF n = 0 THEN 0 ELSE IF s[n] = "+" THEN n ELSE LastPlus(s, n - 1)

RECURSIVE IsSum(_)
\* s is k >= 1 numbers joined by "+"
IsSum(s) ==
    LET j == LastPlus(s, Len(s))
    IN IF j = 0 THEN IsNumber(s)
       ELSE IsNumber(SubSeq(s, j + 1, Len(s))) /\ IsSum(SubSeq(s, 1, j - 1))

RECURSIVE SumTree(_)
\* the left-nested tree of a sum: Plus(Plus(n1, n2), n3) ...
SumTree(s) ==
    LET j == LastPlus(s, Len(s))
    IN IF j = 0 THEN StrVal(s)
       ELSE Val("Plus", <<>>, <<SumTree(SubSeq(s, 1, j - 1)), StrVal(<<"+">>),
                                StrVal(SubSeq(s, j + 1, Len(s)))>>)

\* C1: with Expr = Plus | Num and Plus = Expr '+' Num, parse of k >= 1
\* numbers joined by '+' returns the left-nested tree of Plus nodes and ends
\* with the cursor at len(text).
C1_LeftNested ==
    (Done /\ top_level = "Expr" /\ IsSum(text))
        => /\ outcome = [status |-> "returned", val |-> SumTree(text)]
           /\ pos = Len(text)

\* parse of "1+2+1" has returned Plus(Plus(1, 2), 1)
C1_Witness ==
    /\ Done
    /\ top_level = "Expr"
    /\ text = <<"1", "+", "2", "+", "1">>
    /\ outcome.val =
         Val("Plus", <<>>,
             <<Val("Plus", <<>>, <<StrVal(<<"1">>), StrVal(<<"+">>), StrVal(<<"2">>)>>),
               StrVal(<<"+">>), StrVal(<<"1">>)>>)
    /\ pos = 5

RECURSIVE Nested(_)
\* the value of A on "a" followed by n times "x"
Nested(n) ==
    IF n = 0 THEN StrVal(<<"a">>)
    ELSE Val("AX", <<>>, <<Val("B", <<>>, <<Nested(n - 1)>>), StrVal(<<"x">>)>>)

\* text is "a" followed by "x"s only
IsAXs(s) == s # <<>> /\ s[1] = "a" /\ \A j \in 2..Len(s) : s[j] = "x"

\* C2: with A = AX | 'a', AX = B 'x' and B = A (indirect left recursion),
\* parse of "a", "ax", "axx", ... succeeds, consumes the whole input and
\* returns a value nested one level deeper per 'x' around the innermost 'a'.
C2_IndirectLR ==
    (Done /\ top_level = "A" /\ IsAXs(text))
        => /\ outcome = [status |-> "returned", val |-> Nested(Len(text) - 1)]
           /\ pos = Len(text)

\* parse of "axx" has returned AX(B(AX(B('a'), 'x')), 'x')
C2_Witness ==
    /\ Done
    /\ top_level = "A"
    /\ text = <<"a", "x", "x">>
    /\ outcome.status = "returned"
    /\ outcome.val.kids[1].kids[1].kids[1].kids[1] = StrVal(<<"a">>)

\* the start rules that are, or contain, a left-recursive rule with a base
\* case that is not recursive
LRTops == {"Expr", "A", "Paren", "ExprO", "ExprZ", "ExprT"}

\* every running grow_lr call has evaluated its rule at most
\* len(text) - pos + 1 times
GrowthBound ==
    \A n \in 1..Len(stack) :
        (stack[n].fn = "apply_rule" /\ stack[n].pc = "growing")
            => stack[n].i <= Len(text) - stack[n].pos + 1

\* C3: for a directly or indirectly left-recursive rule with a base case that
\* is not recursive, applied at position p, the parse terminates, and grow_lr
\* evaluates the head rule at most len(text) - p + 1 times for that position.
C3_GrowthTerminates ==
    /\ <>(top_level \in LRTops => Done)
    /\ []GrowthBound

\* a grow_lr call is at its third evaluation of the head rule
C3_Witness ==
    \E n \in 1..Len(stack) :
        /\ stack[n].fn = "apply_rule"
        /\ stack[n].pc = "growing"
        /\ stack[n].i = 3
        /\ top_level \in LRTops

(***************************************************************************)
(* Ordered choice                                                          *)
(***************************************************************************)
\* the answer the memo holds for key k: an LR marker stands for its seed
Stored(k) == IF IsLR(memo[k].ans) THEN lrs[k].seed ELSE memo[k].ans

\* rule is a Literal none of whose values the text starts with at p, spaces
\* skipped
LiteralFailsAt(rule, p) ==
    \A j \in 1..Len(Grammar[rule].values) :
        ~StartsWith(text, Grammar[rule].values[j], RunEnd(text, p, Whitespace))

\* a Union is about to return the value of its alternative Top.i
UnionReturns == At("try_rule", "union_ret") /\ ret.kind = "return"

\* a Literal rule has just returned a value to apply_rule
LiteralReturned ==
    /\ stack # <<>>
    /\ Top.fn = "apply_rule"
    /\ Top.pc # "enter"
    /\ Form(Top.rule) = "Literal"
    /\ ret.kind = "return"

\* C4: a Choice (Union) or a multi-valued Literal evaluated at p returns the
\* result of the first alternative, in declared order, that succeeds at p:
\* every alternative before the one whose value is returned has failed at p
\* (a later alternative's value is never returned when an earlier one
\* matches, even where the later one would match a longer text).
C4_OrderedChoice ==
    /\ UnionReturns =>
         \A j \in 1..(Top.i - 1) :
            LET alt == Grammar[Top.rule].args[j]
            IN /\ Key(alt, Top.start) \in DOMAIN memo
               /\ IsFailed(Stored(Key(alt, Top.start)))
               /\ Form(alt) = "Literal" => LiteralFailsAt(alt, Top.start)
    /\ LiteralReturned =>
         LET v == ret.val.str
             values == Grammar[Top.rule].values
         IN \A j \in 1..Len(values) :
                StartsWith(text, values[j], pos - Len(v))
                    => \E n \in 1..j : values[n] = v

\* First = 'a' | 'ab' returns 'a' where the text goes on with "ab", or the
\* Literal['a', 'ab'] has returned 'a' there
C4_Witness ==
    \/ /\ UnionReturns
       /\ Top.rule = "First"
       /\ Top.i = 1
       /\ ret.val = StrVal(<<"a">>)
       /\ StartsWith(text, <<"a", "b">>, Top.start)
    \/ /\ LiteralReturned
       /\ Top.rule = "Lits"
       /\ ret.val = StrVal(<<"a">>)
       /\ StartsWith(text, <<"a", "b">>, pos - 1)

(***************************************************************************)
(* Commit                                                                  *)
(***************************************************************************)
\* the rules a rule of one of the given forms applies
Kids(rule, forms) ==
    IF Form(rule) \notin forms THEN {}
    ELSE IF Form(rule) = "class"
         THEN {Grammar[rule].fields[j].rule : j \in 1..Len(Grammar[rule].fields)}
              \ {"Commit"}
    ELSE IF Form(rule) = "list"
         THEN {Grammar[rule].elem}
              \cup {Grammar[rule].args[j] : j \in 2..Len(Grammar[rule].args)}
    ELSE IF Form(rule) = "Not" THEN {Grammar[rule].rule}
    ELSE {}

RECURSIVE Below(_, _)
\* the rules reached from the rules of set through rules of the given forms
\* only (never through a Union: a Union is a Choice of its own)
Below(set, forms) ==
    LET more == set \cup UNION {Kids(r, forms) : r \in set}
    IN IF more = set THEN set ELSE Below(more, forms)

\* a class with a Commit field
HasCommit(rule) ==
    /\ Form(rule) = "class"
    /\ \E j \in 1..Len(Grammar[rule].fields) : Grammar[rule].fields[j].rule = "Commit"

\* the application of rule at q ended with a committed failure
CommitFailedAt(rule, q) ==
    /\ Key(rule, q) \in DOMAIN memo
    /\ memo[Key(rule, q)].ans.tag = "FailedToCommit"

\* frame f is a Union that has gone on to a later alternative although a
\* Sequence with a Commit, reached from an earlier alternative through rules
\* of the given forms, failed after its Commit
WentOnAfterCommit(f, forms) ==
    /\ f.fn = "try_rule"
    /\ f.pc = "union_ret"
    /\ \E j \in 1..(f.i - 1) :
         \E rule \in Below({Grammar[f.rule].args[j]}, forms) :
            /\ HasCommit(rule)
            /\ \E q \in f.start..Len(text) : CommitFailedAt(rule, q)

\* C5 as claimed: once a Sequence has passed a Commit field, a failure of a
\* later field makes the innermost enclosing Choice fail without trying its
\* remaining alternatives, whatever rule forms (Sequence, Repeat, Not) lie
\* between the Sequence and that Choice.
C5_AnyFormBetween ==
    \A n \in 1..Len(stack) : ~WentOnAfterCommit(stack[n], {"class", "list", "Not"})

\* a Union has just been handed a FailedToCommit by its alternative
UnionGetsCommitFailure ==
    /\ At("try_rule", "union_ret")
    /\ ret.kind = "raise"
    /\ ret.val.tag = "FailedToCommit"

\* a Sequence that has passed a Commit is handed the failure of a later field
CommittedFieldFails ==
    /\ At("try_rule", "field_ret")
    /\ Top.committed
    /\ ret.kind = "raise"
    /\ IsFailed(ret.val)

\* a Sequence, or an apply_rule that is not growing a seed, is handed a
\* FailedToCommit
HandedCommitFailure ==
    /\ stack # <<>>
    /\ \/ Top.fn = "try_rule" /\ Form(Top.rule) = "class"
       \/ Top.fn = "apply_rule" /\ Top.pc # "growing"
    /\ ret.kind = "raise"
    /\ ret.val.tag = "FailedToCommit"

\* C5, amended: a failure of a field after the Commit of a Sequence makes the
\* innermost enclosing Choice fail without trying its remaining alternatives
\* when only Sequences lie between that Sequence and the Choice and no seed
\* is being grown between them: the Sequence raises FailedToCommit,
\* Sequences and apply_rule pass it on, the Choice that is handed it raises
\* Failed at once, and no Choice is ever at a later alternative with such a
\* failure below an earlier one.
C5_SequencesBetween ==
    /\ [](\A n \in 1..Len(stack) : ~WentOnAfterCommit(stack[n], {"class"}))
    /\ [][(CommittedFieldFails \/ HandedCommitFailure)
            => /\ stack' = Pop
               /\ ret'.kind = "raise"
               /\ ret'.val.tag = "FailedToCommit"]_vars
    /\ [][UnionGetsCommitFailure
            => /\ stack' = Pop
               /\ ret' = Raised(Failed("Expecting"))
               /\ pos' = Top.start]_vars

\* parse of "(1+)" with Paren = ParenSeq | NAME has failed: ParenSeq failed
\* after its Commit and NAME was never applied
C5_Witness ==
    /\ Done
    /\ top_level = "Paren"
    /\ text = <<"(", "1", "+", ")">>
    /\ outcome.status = "SyntaxError"
    /\ CommitFailedAt("ParenSeq", 0)
    /\ Key("NAME", 0) \notin DOMAIN memo

(***************************************************************************)
(* Backtracking and memoization                                            *)
(***************************************************************************)
\* the step in which the innermost apply_rule call raises a Failed
ApplyFails ==
    /\ stack # <<>>
    /\ Top.fn = "apply_rule"
    /\ stack' = Pop
    /\ ret'.kind = "raise"
    /\ IsFailed(ret'.val)

\* C6: whenever apply_rule(rule, p) fails (raises Failed), for any rule form,
\* the cursor after the failure equals the cursor just before the attempt.
C6_CursorRestored == [][ApplyFails => pos' = Top.pos]_vars

\* the step in which the innermost apply_rule call, having found an entry
\* for its rule and position in the memo, returns or raises
ApplyEndsOnEntry ==
    /\ stack # <<>>
    /\ Top.fn = "apply_rule"
    /\ Top.pc \in {"enter", "recall_eval"}
    /\ Key(Top.rule, Top.pos) \in DOMAIN memo
    /\ stack' = Pop

\* C7 as claimed: for any rule R and position p, two applications of R at p
\* within one parse return equal results and leave the cursor at the same
\* position: an application that finds an entry left by an earlier one ends
\* with that entry's answer, at that entry's position.
C7_SameResult ==
    [][ApplyEndsOnEntry
         => /\ ret' = ApplyResult(Stored(Key(Top.rule, Top.pos)))
            /\ pos' = memo[Key(Top.rule, Top.pos)].pos]_vars

\* apply_rule is entered for a rule and position the memo has an entry for,
\* no head being active at that position
HitOutsideGrowth ==
    /\ At("apply_rule", "enter")
    /\ heads[Top.pos] = NoKey
    /\ Key(Top.rule, Top.pos) \in DOMAIN memo

\* C7, amended: while no head is active at p, an application of R at p that
\* finds a memo entry returns the entry's answer (the same value or the same
\* failure) and leaves the cursor at the entry's position in one step, with
\* no evaluation of R, and an entry that holds a final answer does not change;
\* applications of R at p made during seed growth at p are not covered.
C7_HitOutsideGrowth ==
    /\ [][HitOutsideGrowth
            => /\ stack' = Pop
               /\ ret' = ApplyResult(Stored(Key(Top.rule, Top.pos)))
               /\ pos' = memo[Key(Top.rule, Top.pos)].pos
               /\ memo' = memo]_vars
    /\ [][\A k \in DOMAIN memo :
            (~IsLR(memo[k].ans) /\ heads[k[2]] = NoKey /\ heads'[k[2]] = NoKey)
                => memo'[k] = memo[k]]_vars

\* a memoized failure is about to be returned by a memo hit, no head being
\* active at the position
C7_Witness ==
    /\ HitOutsideGrowth
    /\ IsFailed(memo[Key(Top.rule, Top.pos)].ans)

\* the first n of the values
Repeated(v, n) == [j \in 1..n |-> v]

\* a Repeat's loop is at its element or its separator
InRepeat ==
    /\ stack # <<>>
    /\ Top.fn = "try_rule"
    /\ Top.pc \in {"elem_ret", "sep_ret"}

\* C8: a Repeat goes on until its element or its separator fails, keeps every
\* element matched, and then ends with all of them: '+' with no element
\* fails, '*' with no element returns the empty list. It never gives an
\* element back: ListA 'a' (all the 'a's, then one more 'a') fails on every
\* text, and a '+' Repeat of 'b' returns as many 'b's as the text begins with.
C8_GreedyRepeat ==
    /\ [][(InRepeat /\ ret.kind = "return")
            => /\ Len(stack') = Len(stack) + 1
               /\ stack'[Len(stack)].values
                    = IF Top.pc = "elem_ret" THEN Appended(Top.values, ret.val)
                      ELSE Top.values]_vars
    /\ [][(InRepeat /\ stack' = Pop /\ Grammar[Top.rule].args[1] \in {"*", "+"})
            => /\ ret.kind = "raise"
               /\ IsFailed(ret.val)
                    => ret' = IF Grammar[Top.rule].args[1] = "+"
                                 /\ Top.values = <<>>
                              THEN Raised(Failed("Failed to match at least"))
                              ELSE Returned(ListVal(Top.values))]_vars
    /\ [](top_level = "Greedy" /\ Done
            => /\ outcome.status = "SyntaxError"
               /\ Stored(Key("ListA", 0))
                    = ListVal(Repeated(StrVal(<<"a">>), RunEnd(text, 0, {"a"})))
               /\ memo[Key("ListA", 0)].pos = RunEnd(text, 0, {"a"}))
    /\ [](top_level = "Some" /\ Done
            => IF RunEnd(text, 0, {"b"}) = Len(text) /\ text # <<>>
               THEN /\ outcome.status = "returned"
                    /\ outcome.val = ListVal(Repeated(StrVal(<<"b">>), Len(text)))
               ELSE outcome.status = "SyntaxError")

\* ListA took both 'a's of "aa" and the sequence around it failed
C8_Witness ==
    /\ top_level = "Greedy"
    /\ Done
    /\ text = <<"a", "a">>
    /\ Len(Stored(Key("ListA", 0)).kids) = 2
    /\ outcome.status = "SyntaxError"

\* a Repeat with a separator is left because its element failed after the
\* separator matched
ElementFailsAfterSeparator ==
    /\ At("try_rule", "elem_ret")
    /\ Form(Top.rule) = "list"
    /\ Len(Grammar[Top.rule].args) >= 2
    /\ Top.values # <<>>
    /\ ret.kind = "raise"
    /\ IsFailed(ret.val)
    /\ stack' = Pop

\* C9: when the element of a Repeat with a separator fails after the
\* separator matched, the cursor goes back to before that separator, which
\* stays unconsumed; Items (names separated by ',') parses "a,b,a" to its
\* three names, and parse fails on "a,b,".
C9_TrailingSeparator ==
    /\ [][ElementFailsAfterSeparator
            => \E j \in 1..Len(Grammar[Grammar[Top.rule].args[2]].values) :
                 StartsWith(text, Grammar[Grammar[Top.rule].args[2]].values[j],
                            RunEnd(text, pos', Whitespace))]_vars
    /\ [](top_level = "Items" /\ Done /\ text = <<"a", ",", "b", ",", "a">>
            => /\ outcome.status = "returned"
               /\ outcome.val = ListVal(<<StrVal(<<"a">>), StrVal(<<"b">>),
                                          StrVal(<<"a">>)>>))
    /\ [](top_level = "Items" /\ Done /\ text = <<"a", ",", "b", ",">>
            => outcome.status = "SyntaxError")

\* Not[r] ends, r having been applied where the Not was
NotEnds ==
    /\ At("try_rule", "not_ret")
    /\ stack' = Pop

\* C10: Not[r] applied at p succeeds exactly when r fails at p, and when it
\* succeeds the cursor is at p again, whatever r skipped or consumed before
\* it failed.
C10_NotConsumesNothing ==
    [][NotEnds
         => /\ (ret'.kind = "return") <=> (ret.kind = "raise" /\ IsFailed(ret.val))
            /\ (ret'.kind = "return") => pos' = Top.pos]_vars

(***************************************************************************)
(* NO_SPACE                                                                *)
(***************************************************************************)
\* the character at p is a whitespace character
SpaceAt(p) == p < Len(text) /\ text[p + 1] \in Whitespace

\* C11: Not[SPACE] applied at p succeeds exactly when the character at p is
\* no whitespace (or p is the end of the text), SPACE having been applied at
\* p itself with no whitespace skipped first, and leaves the cursor at p; in
\* the sequence NAME Not[SPACE] Num the text "a 1" fails and "a1" parses.
C11_NoSpace ==
    /\ [][(NotEnds /\ Top.rule = "NO_SPACE")
            => /\ (ret'.kind = "return") <=> ~SpaceAt(Top.pos)
               /\ Key("SPACE", Top.pos) \in DOMAIN memo
               /\ (ret'.kind = "return") => (ret'.val = NoneVal /\ pos' = Top.pos)
               /\ (ret'.kind = "raise") => IsFailed(ret'.val)]_vars
    /\ [](top_level = "Adjacent" /\ Done /\ text = <<"a", " ", "1">>
            => outcome.status = "SyntaxError")
    /\ [](top_level = "Adjacent" /\ Done /\ text = <<"a", "1">>
            => /\ outcome.status = "returned"
               /\ outcome.val = Val("Adjacent", <<>>,
                                    <<StrVal(<<"a">>), NoneVal, StrVal(<<"1">>)>>))

\* Not[SPACE] is about to fail at a space that follows a NAME
C11_Witness ==
    /\ At("try_rule", "not_ret")
    /\ Top.rule = "NO_SPACE"
    /\ Top.pos > 0
    /\ SpaceAt(Top.pos)
    /\ ret.kind = "return"

(***************************************************************************)
(* raise_on_unconsumed                                                     *)
(***************************************************************************)
\* parse is handed the result of the start rule
StartRuleEnds == At("parse", "ret") /\ ret.kind # "none"

\* C12: with raise_on_unconsumed parse returns the start rule's value only
\* when the cursor equals len(text) and raises a SyntaxError when text is
\* left over; without it parse returns the value and leaves the cursor where
\* the start rule ended. A Failed of the start rule is a SyntaxError in both
\* modes. NAME on "a a": an error in the first mode, "a" with pos = 1 in the
\* second.
C12_RaiseOnUnconsumed ==
    /\ [][StartRuleEnds
            => /\ pos' = pos
               /\ stack' = <<>>
               /\ (ret.kind = "raise" /\ IsFailed(ret.val))
                    => outcome'.status = "SyntaxError"
               /\ (ret.kind = "return" /\ raise_on_unconsumed)
                    => IF pos = Len(text)
                       THEN outcome' = [status |-> "returned", val |-> ret.val]
                       ELSE outcome'.status = "SyntaxError"
               /\ (ret.kind = "return" /\ ~raise_on_unconsumed)
                    => outcome' = [status |-> "returned", val |-> ret.val]]_vars
    /\ [](top_level = "NAME" /\ Done /\ text = <<"a", " ", "a">>
            => /\ pos = 1
               /\ IF raise_on_unconsumed
                  THEN outcome.status = "SyntaxError"
                  ELSE outcome = [status |-> "returned",
                                  val |-> StrVal(<<"a">>)])

\* NAME was parsed on "a a" without raise_on_unconsumed: "a" is returned
\* with the cursor at 1
C12_Witness ==
    /\ top_level = "NAME"
    /\ Done
    /\ text = <<"a", " ", "a">>
    /\ ~raise_on_unconsumed
    /\ outcome.status = "returned"
    /\ pos = 1

(***************************************************************************)
(* Optional                                                                *)
(***************************************************************************)
\* typing.Optional[r] is the Union of r and type(None)
IsOptional(rule) ==
    /\ Form(rule) = "Union"
    /\ Len(Grammar[rule].args) = 2
    /\ Grammar[rule].args[2] = "NoneType"

\* an Optional is handed the result of the alternative it applied
OptionalHanded ==
    /\ At("try_rule", "union_ret")
    /\ IsOptional(Top.rule)
    /\ Evaluated

UnionGetsFailure ==
    /\ At("try_rule", "union_ret")
    /\ ret.kind = "raise"
    /\ ret.val.tag = "Failed"
    /\ Top.i < Len(Grammar[Top.rule].args)

\* C14: the Choice that is handed a FailedToCommit fails with an ordinary
\* Failed, and a Choice that is handed an ordinary Failed goes on to its next
\* alternative, so a committed failure stops the alternatives of one Choice
\* only: Outer = Choice(Sequence(Choice(CSeq, 'b')), 'a') parses "a" as its
\* second alternative after CSeq failed past its Commit, 'b' never tried.
C14_OneChoiceLevel ==
    /\ [][UnionGetsCommitFailure
            => /\ stack' = Pop
               /\ ret'.kind = "raise"
               /\ ret'.val.tag = "Failed"]_vars
    /\ [][UnionGetsFailure
            => /\ pos' = Top.start
               /\ stack' = Call([Top EXCEPT !.i = Top.i + 1],
                                Frame("apply_rule", "enter",
                                      Grammar[Top.rule].args[Top.i + 1],
                                      Top.start))]_vars
    /\ [](top_level = "Outer" /\ Done /\ text = <<"a">>
            => /\ outcome = [status |-> "returned", val |-> StrVal(<<"a">>)]
               /\ CommitFailedAt("CSeq", 0)
               /\ memo[Key("Inner", 0)].ans.tag = "Failed"
               /\ Key("LitB", 0) \notin DOMAIN memo)

\* Outer is handed the ordinary Failed its first alternative made of the
\* committed failure of CSeq
C14_Witness ==
    /\ UnionGetsFailure
    /\ Top.rule = "Outer"
    /\ Top.i = 1
    /\ CommitFailedAt("CSeq", Top.start)
    /\ memo[Key("Inner", Top.start)].ans.tag = "Failed"

\* a Sequence is handed the failure of the field it applied
SequenceFieldFails ==
    /\ At("try_rule", "field_ret")
    /\ ret.kind = "raise"
    /\ IsFailed(ret.val)

\* a Commit field of the Sequence comes before the field it applied
CommitPrecedes ==
    \E j \in 1..(Top.i - 1) : Grammar[Top.rule].fields[j].rule = "Commit"

\* C15 as claimed: a Sequence raises the failure of a field as a
\* FailedToCommit exactly when a Commit field of that same Sequence precedes
\* the failing field, and as an ordinary failure otherwise.
C15_CommittedExactlyAfterCommit ==
    [][SequenceFieldFails
         => /\ stack' = Pop
            /\ ret'.kind = "raise"
            /\ (ret'.val.tag = "FailedToCommit") <=> CommitPrecedes
            /\ ~CommitPrecedes => ret'.val.tag = "Failed"]_vars

\* C15, amended: a Sequence raises the failure of a field as a
\* FailedToCommit when a Commit field of that same Sequence precedes the
\* failing field; the failure of a field before any Commit is raised again as
\* it is: an ordinary failure stays ordinary, a FailedToCommit raised by the
\* field (a Sequence that failed after its own Commit) stays committed.
C15_CommittedAfterCommit ==
    [][SequenceFieldFails
         => /\ stack' = Pop
            /\ pos' = pos
            /\ ret' = IF CommitPrecedes THEN Raised(FailedToCommit(ret.val))
                      ELSE ret]_vars

\* CSeq is handed the ordinary failure of its field 'b', which follows its
\* Commit
C15_Witness ==
    /\ SequenceFieldFails
    /\ Top.rule = "CSeq"
    /\ CommitPrecedes
    /\ ret.val.tag = "Failed"

(***************************************************************************)
(* Malformed rules                                                         *)
(***************************************************************************)
\* a call other than parse is handed a TypeError
HandedTypeError ==
    /\ stack # <<>>
    /\ Top.fn # "parse"
    /\ ret.kind = "raise"
    /\ ret.val.tag = "TypeError"

\* a Repeat's loop is left with a quantifier that is neither '*' nor '+'
BadQuantifier ==
    /\ InRepeat
    /\ ret.kind = "raise"
    /\ IsFailed(ret.val)
    /\ Grammar[Top.rule].args[1] \notin {"*", "+"}

\* C16: a bare string used as a rule and a Repeat whose quantifier is neither
\* '*' nor '+' raise TypeError when they are evaluated; every call that is
\* handed the TypeError (a Choice, an Optional, a Repeat, a Not, apply_rule)
\* ends with it, the cursor and the memo left as they are, no alternative
\* tried; parse ends with the TypeError.
C16_TypeErrorEscapes ==
    /\ [][(TryEnter("str") \/ BadQuantifier)
            => /\ stack' = Pop
               /\ ret'.kind = "raise"
               /\ ret'.val.tag = "TypeError"]_vars
    /\ [][HandedTypeError
            => /\ stack' = Pop
               /\ ret' = ret
               /\ pos' = pos
               /\ memo' = memo]_vars
    /\ [][(At("parse", "ret") /\ ret.kind = "raise"
             /\ ret.val.tag = "TypeError")
            => outcome'.status = "TypeError"]_vars
    /\ [](Done /\ (\E q \in 0..Len(text) :
                     \/ Key("BadStr", q) \in DOMAIN memo
                     \/ Key("BadList", q) \in DOMAIN memo)
            => outcome.status = "TypeError")
    /\ [](Done /\ top_level = "OptBad"
            => Key("NoneType", 0) \notin DOMAIN memo)

\* the Repeat inside an Optional is handed the TypeError of its element
C16_Witness ==
    /\ HandedTypeError
    /\ At("try_rule", "elem_ret")
    /\ Top.rule = "RepBad"
    /\ Len(stack) > 3
    /\ stack[Len(stack) - 2].rule = "OptBad"

(***************************************************************************)
(* Lookahead                                                               *)
(***************************************************************************)
\* try_rule for a Lookahead[r] ends
LookaheadEnds ==
    /\ stack # <<>>
    /\ Top.fn = "try_rule"
    /\ Form(Top.rule) = "Lookahead"
    /\ stack' = Pop

\* the Literal rule has a value the text starts with at p, spaces skipped
LiteralMatchesAt(rule, p) == ~LiteralFailsAt(rule, p)

\* C17: Lookahead[r] applied at p succeeds exactly when r succeeds at p,
\* returns r's value and leaves the cursor at p; Sequence(Lookahead['a'],
\* 'a') parses "a".
C17_LookaheadConsumesNothing ==
    /\ [][LookaheadEnds
            => /\ ret'.kind = "return" \/ IsFailed(ret'.val)
               /\ (ret'.kind = "return")
                    <=> LiteralMatchesAt(Grammar[Top.rule].rule, Top.pos)
               /\ (ret'.kind = "return")
                    => /\ pos' = Top.pos
                       /\ ret'.val = Stored(Key(Grammar[Top.rule].rule,
                                                Top.pos))]_vars
    /\ [](top_level = "LookSeq" /\ Done /\ text = <<"a">>
            => outcome = [status |-> "returned",
                          val |-> Val("LookSeq", <<>>,
                                      <<StrVal(<<"a">>), StrVal(<<"a">>)>>)])

(***************************************************************************)
(* The cursor                                                              *)
(***************************************************************************)
\* C18: in every reachable state of a parse 0 <= pos <= len(text), and the
\* end position of every memo entry is within the same bounds.
C18_PosInBounds ==
    /\ pos \in 0..Len(text)
    /\ \A k \in DOMAIN memo : memo[k].pos \in 0..Len(text)

\* in the middle of a parse the cursor is at the end of a text of three
\* characters or more, and so is the end of a memo entry made further left
C18_Witness ==
    /\ stack # <<>>
    /\ Len(text) >= 3
    /\ pos = Len(text)
    /\ \E k \in DOMAIN memo : memo[k].pos = Len(text) /\ k[2] < Len(text)

(***************************************************************************)
(* LR markers                                                              *)
(***************************************************************************)
RECURSIVE LRChain(_)
\* the LRs on the invocation stack from s down
LRChain(s) == IF s = NoKey THEN {} ELSE {s} \cup LRChain(lrs[s].next)

\* C19: at every point of a parse the memo entry at (rule, pos) holds an LR
\* marker if and only if that marker's invocation is on the LR invocation
\* stack: once apply_rule_inner has popped a rule's LR, the rule's memo entry
\* holds no LR marker, also for the involved rules of a left-recursive cycle.
C19_MarkerIffOnStack ==
    \A k \in DOMAIN memo : IsLR(memo[k].ans) <=> k \in LRChain(lr_stack)

(***************************************************************************)
(* Seed growth                                                             *)
(***************************************************************************)
\* frame n of the stack is an apply_rule whose grow_lr loop is running
Growing(n) == stack[n].fn = "apply_rule" /\ stack[n].pc = "growing"

\* the memo key of frame n
FrameKey(n) == Key(stack[n].rule, stack[n].pos)

\* grow_lr is handed the result of a re-evaluation of its head rule
GrowthEvaluated == At("apply_rule", "growing") /\ Evaluated

\* C20: while grow_lr runs, the head's memo entry changes only when a
\* re-evaluation has parsed and ended strictly after the stored end position,
\* and then to that answer and that end; the first re-evaluation that fails
\* or ends no further ends the growth: the head is removed, the cursor is put
\* at the stored end position and the stored answer is returned.
C20_GrowthMonotone ==
    /\ [][\A n \in 1..Len(stack) :
            (Growing(n) /\ memo'[FrameKey(n)] # memo[FrameKey(n)])
                => /\ n = Len(stack)
                   /\ ret.kind = "return"
                   /\ pos > memo[FrameKey(n)].pos
                   /\ memo'[FrameKey(n)] = MemoEntry(ret.val, pos)
                   /\ Len(stack') = Len(stack) + 1
                   /\ Growing(n)']_vars
    /\ [][(GrowthEvaluated /\ ret.kind = "return"
             /\ pos > memo[Key(Top.rule, Top.pos)].pos)
            => /\ memo'[Key(Top.rule, Top.pos)] = MemoEntry(ret.val, pos)
               /\ pos' = Top.pos
               /\ stack' = Call([Top EXCEPT !.i = Top.i + 1],
                                Frame("try_rule", "enter", Top.rule,
                                      Top.pos))]_vars
    /\ [][(GrowthEvaluated
             /\ (ret.kind = "raise" \/ pos <= memo[Key(Top.rule, Top.pos)].pos))
            => /\ stack' = Pop
               /\ memo' = memo
               /\ heads' = [heads EXCEPT ![Top.pos] = NoKey]
               /\ pos' = memo[Key(Top.rule, Top.pos)].pos
               /\ ret' = Returned(memo[Key(Top.rule, Top.pos)].ans)]_vars

\* the second re-evaluation of a growth has ended further than the first
C20_Witness ==
    /\ GrowthEvaluated
    /\ Top.i = 2
    /\ ret.kind = "return"
    /\ pos > memo[Key(Top.rule, Top.pos)].pos

(***************************************************************************)
(* The memo after an application                                           *)
(***************************************************************************)
\* the step in which the innermost apply_rule call returns a value
ApplyReturns ==
    /\ stack # <<>>
    /\ Top.fn = "apply_rule"
    /\ stack' = Pop
    /\ ret'.kind = "return"

\* C21: after every successful apply_rule(rule, p), on the miss path, the
\* memo-hit path and the seed-growth path alike, the memo has an entry at
\* (rule, p), the entry holds the returned value, and the entry's position is
\* the cursor position just after the call.
C21_MemoHoldsResult ==
    [][ApplyReturns
        => /\ Key(Top.rule, Top.pos) \in DOMAIN memo'
           /\ memo'[Key(Top.rule, Top.pos)].ans = ret'.val
           /\ memo'[Key(Top.rule, Top.pos)].pos = pos']_vars

(***************************************************************************)
(* Recall during seed growth                                               *)
(***************************************************************************)
\* apply_rule is entered at a position where a head is active, for a rule
\* that is neither the head's rule nor one of its involved rules
OutsideHead ==
    /\ At("apply_rule", "enter")
    /\ heads[Top.pos] # NoKey
    /\ Top.rule \notin ({headObjs[heads[Top.pos]].rule}
                          \cup headObjs[heads[Top.pos]].involved)

\* C22 as claimed: while a head is active at p, applying at p a rule that is
\* neither the head's rule nor in its involved set returns a failure, whether
\* or not the memo already holds an entry for that rule at p.
C22_SuppressedAlways ==
    [][OutsideHead
        => /\ stack' = Pop
           /\ ret'.kind = "raise"
           /\ IsFailed(ret'.val)]_vars

\* C22, amended: while a head is active at p, applying at p a rule that is
\* neither the head's rule nor in its involved set never evaluates the rule:
\* with no memo entry for the rule at p it raises a failure at once, the
\* cursor and the memo staying as they are; with an entry it ends with that
\* entry's answer, value or failure, and the cursor at the entry's position.
C22_SuppressedWithoutEntry ==
    /\ [][(OutsideHead /\ Key(Top.rule, Top.pos) \notin DOMAIN memo)
            => /\ stack' = Pop
               /\ ret' = Raised(Failed("Invalid parser state 2"))
               /\ pos' = pos
               /\ memo' = memo]_vars
    /\ [][(OutsideHead /\ Key(Top.rule, Top.pos) \in DOMAIN memo)
            => /\ stack' = Pop
               /\ ret' = ApplyResult(Stored(Key(Top.rule, Top.pos)))
               /\ pos' = memo[Key(Top.rule, Top.pos)].pos
               /\ memo' = memo]_vars

\* a rule outside the active head, with no memo entry, has just been refused
C22_Witness ==
    /\ ret = Raised(Failed("Invalid parser state 2"))
    /\ heads[pos] # NoKey
    /\ stack # <<>>
    /\ Top.fn = "try_rule"

\* apply_rule is entered at a position where a head is active, for one of
\* the head's involved rules
InvolvedApplied ==
    /\ At("apply_rule", "enter")
    /\ heads[Top.pos] # NoKey
    /\ Top.rule \in headObjs[heads[Top.pos]].involved

\* apply_rule is entered at a position where a head is active, for the
\* head's own rule
HeadApplied ==
    /\ At("apply_rule", "enter")
    /\ heads[Top.pos] # NoKey
    /\ Top.rule = headObjs[heads[Top.pos]].rule

\* the step is the start of an iteration of the grow_lr call of head h
IterationStarts(h) ==
    /\ stack # <<>>
    /\ Top.fn = "apply_rule"
    /\ Top.pc \in {"evaluated", "growing"}
    /\ Len(stack') = Len(stack) + 1
    /\ stack'[Len(stack)].pc = "growing"
    /\ stack'[Len(stack)].head = h

\* C23: within one iteration of grow_lr at p each involved rule is evaluated
\* anew at p at most once: an involved rule is evaluated only while it is in
\* head.eval, the evaluation takes it out of head.eval and ends by storing
\* its answer and end in the memo entry, head.eval regains rules only when an
\* iteration starts, and an involved rule that is no longer in head.eval
\* returns its memo entry. The head's own rule applied at p is never
\* evaluated by recall: it returns the seed stored in its memo entry.
C23_ReevaluatedOnce ==
    /\ [][(InvolvedApplied /\ Len(stack') = Len(stack) + 1)
            => /\ Top.rule \in headObjs[heads[Top.pos]].eval
               /\ headObjs'[heads[Top.pos]].eval
                    = headObjs[heads[Top.pos]].eval \ {Top.rule}
               /\ stack'[Len(stack)].pc = "recall_eval"]_vars
    /\ [][(At("apply_rule", "recall_eval") /\ Evaluated)
            => /\ stack' = Pop
               /\ memo'[Key(Top.rule, Top.pos)] = MemoEntry(ret.val, pos)
               /\ ret' = ApplyResult(ret.val)
               /\ pos' = pos]_vars
    /\ [][\A h \in DOMAIN headObjs :
            ~(headObjs'[h].eval \subseteq headObjs[h].eval)
                => IterationStarts(h)]_vars
    /\ [][(InvolvedApplied
             /\ Top.rule \notin headObjs[heads[Top.pos]].eval)
            => /\ stack' = Pop
               /\ ret' = ApplyResult(Stored(Key(Top.rule, Top.pos)))
               /\ pos' = memo[Key(Top.rule, Top.pos)].pos
               /\ memo' = memo]_vars
    /\ [][HeadApplied
            => /\ stack' = Pop
               /\ ret' = ApplyResult(memo[Key(Top.rule, Top.pos)].ans)
               /\ pos' = memo[Key(Top.rule, Top.pos)].pos
               /\ memo' = memo]_vars

\* an involved rule is applied a second time within one iteration
C23_Witness ==
    /\ InvolvedApplied
    /\ Top.rule \notin headObjs[heads[Top.pos]].eval

(***************************************************************************)
(* A seed that fails                                                       *)
(***************************************************************************)
\* the first evaluation of a left-recursive head has just failed: the
\* innermost apply_rule frame is handed the failure, and the LR of its rule
\* carries a head for that very rule
SeedFails ==
    /\ At("apply_rule", "evaluated")
    /\ ret.kind = "raise"
    /\ IsFailed(ret.val)
    /\ lrs[Key(Top.rule, Top.pos)].head # NoKey
    /\ headObjs[lrs[Key(Top.rule, Top.pos)].head].rule = Top.rule

\* the memo entry k is the failed seed of a head: the answer lr_answer stored
FailedSeed(k) ==
    /\ k \in DOMAIN lrs
    /\ k \notin LRChain(lr_stack)
    /\ lrs[k].head # NoKey
    /\ headObjs[lrs[k].head].rule = k[1]
    /\ IsFailed(lrs[k].seed)
    /\ memo[k].ans = lrs[k].seed

\* C24: when the first evaluation of a left-recursive head rule at p fails,
\* apply_rule raises that failure in the same step, with no iteration of
\* grow_lr and the heads map untouched, no head being installed at p, and the
\* failure is stored in the head's memo entry, which never changes afterwards.
C24_FailedSeed ==
    /\ [][SeedFails
            => /\ stack' = Pop
               /\ ret' = Raised(ret.val)
               /\ heads' = heads
               /\ heads[Top.pos] = NoKey
               /\ memo'[Key(Top.rule, Top.pos)].ans = ret.val
               /\ \A k \in {Key(Top.rule, Top.pos)} : FailedSeed(k)']_vars
    /\ [][\A k \in DOMAIN memo : FailedSeed(k) => memo'[k] = memo[k]]_vars

\* apply_rule has just raised the failed seed of its left-recursive head
C24_Witness ==
    /\ ret.kind = "raise"
    /\ \E k \in DOMAIN memo :
        /\ FailedSeed(k)
        /\ ret.val = memo[k].ans
        /\ heads[k[2]] = NoKey
        /\ pos = memo[k].pos

\* grow_lr is handed a FailedToCommit by a re-evaluation of its head rule
GrowthFailsToCommit ==
    /\ At("apply_rule", "growing")
    /\ ret.kind = "raise"
    /\ ret.val.tag = "FailedToCommit"

\* C25: a FailedToCommit raised while grow_lr evaluates the head rule again
\* does not leave the growth loop as an exception: it ends the growth, the
\* head is removed, and apply_rule returns the seed grown so far, unchanged,
\* with the cursor at that seed's end.
C25_CommitEndsGrowth ==
    [][GrowthFailsToCommit
        => /\ stack' = Pop
           /\ ret' = Returned(memo[Key(Top.rule, Top.pos)].ans)
           /\ pos' = memo[Key(Top.rule, Top.pos)].pos
           /\ memo' = memo
           /\ heads' = [heads EXCEPT ![Top.pos] = NoKey]]_vars

\* a growth that has a seed ending after its start is handed a FailedToCommit
C25_Witness ==
    /\ GrowthFailsToCommit
    /\ memo[Key(Top.rule, Top.pos)].pos > Top.pos
    /\ ~IsFailed(memo[Key(Top.rule, Top.pos)].ans)

(***************************************************************************)
(* Termination of a Repeat                                                 *)
(***************************************************************************)
\* the loop of a Repeat is running somewhere on the call stack
RepeatRunning ==
    \E n \in 1..Len(stack) :
        /\ stack[n].fn = "try_rule"
        /\ stack[n].pc \in {"elem_ret", "sep_ret"}

\* C26: the evaluation of a Repeat ends, whatever its element rule is, also
\* when the element can parse without consuming input (a list of Optional
\* items): a Repeat whose loop is running leaves that loop at some time.
C26_RepeatTerminates == RepeatRunning ~> ~RepeatRunning

(***************************************************************************)
(* The LR stack and the heads map                                          *)
(***************************************************************************)
RECURSIVE LRSeq(_)
\* the LR invocation stack from s down, as the sequence of its keys
LRSeq(s) == IF s = NoKey THEN <<>> ELSE <<s>> \o LRSeq(lrs[s].next)

RECURSIVE Pushed(_)
\* the keys of the apply_rule calls among the first n frames of the call
\* stack that have pushed an LR and not yet popped it, innermost first
Pushed(n) ==
    IF n = 0 THEN <<>>
    ELSE IF stack[n].fn = "apply_rule" /\ stack[n].pc = "evaluated"
         THEN <<FrameKey(n)>> \o Pushed(n - 1)
         ELSE Pushed(n - 1)

\* an exception that is no Failed is on its way out, or has ended the parse
Escaping ==
    \/ ret.kind = "raise" /\ ~IsFailed(ret.val)
    \/ outcome.status \notin {"running", "returned", "SyntaxError"}

\* C27: as long as no exception other than Failed escapes, the LR invocation
\* stack holds exactly the LRs of the apply_rule calls that are evaluating
\* their rule after a memo miss, innermost on top, so every such call pops
\* the frame it pushed, when it parses and when it fails; a position has an
\* active head only while a grow_lr call for that head and position is
\* running; and when parse has returned or raised a parse error the LR
\* stack is empty and no position has an active head.
C27_LRStackBalanced ==
    /\ ~Escaping => LRSeq(lr_stack) = Pushed(Len(stack))
    /\ ~Escaping =>
         \A p \in DOMAIN heads :
            heads[p] # NoKey
                => \E n \in 1..Len(stack) :
                     /\ Growing(n)
                     /\ stack[n].pos = p
                     /\ stack[n].head = heads[p]
    /\ (Done /\ outcome.status \in {"returned", "SyntaxError"})
         => /\ lr_stack = NoKey
            /\ \A p \in DOMAIN heads : heads[p] = NoKey

\* a parse that grew a left-recursive seed has returned its value
C27_Witness ==
    /\ Done
    /\ outcome.status = "returned"
    /\ \E k \in DOMAIN memo :
         /\ k \in DOMAIN headObjs
         /\ memo[k].pos > k[2]
         /\ ~IsFailed(memo[k].ans)
    /\ lr_stack = NoKey
    /\ \A p \in DOMAIN heads : heads[p] = NoKey

====
